---- MODULE Spec2Model ----
(***************************************************************************)
(* Model of the agent templates: the cooldown admission gate               *)
(* (agent_1/agent.py check_cool_down), the orchestration of agent_1's      *)
(* root LoopAgent, agent4's SequentialAgent over a ParallelAgent, agent3's *)
(* orchestrator with its after_tool_callback, and the MCP tool servers'    *)
(* call_tool / list_tools.                                                 *)
(*                                                                         *)
(* Time is counted in ticks; TicksPerSecond ticks make one second, so a    *)
(* timedelta that is not a whole number of seconds is representable.       *)
(***************************************************************************)
EXTENDS Integers, Sequences, FiniteSets, TLC

\* ------------------------------------------------------------------ bounds
TicksPerSecond == 2
MaxNow == 5
MaxPeriod == 2

Periods == 1..MaxPeriod
Time == 0..MaxNow

\* ------------------------------------------------------------ agent names
FirstAgentName == "first_agent"
SecondAgentName == "second_agent"
RootAgentName == "your_agent_system_name"

Nodes == {RootAgentName, FirstAgentName, SecondAgentName}
GateNodes == {RootAgentName, FirstAgentName}

Runs == {"run1", "run2"}

\* ------------------------------------------------- values held by the store
\* The "time" field of GET /cooldown/{name}: absent, or a string.  A string
\* is an ISO-8601 timestamp with a UTC offset ("aware"), one without an
\* offset ("naive"), or not a timestamp at all ("invalid").
NoTime == [kind |-> "absent", t |-> 0]

isoformat(t) == [kind |-> "aware", t |-> t]

TimeStrings ==
  {NoTime, [kind |-> "invalid", t |-> 0]}
    \cup [kind : {"aware", "naive"}, t : Time]

\* Records another client may have left in the store before the run starts.
SeedStrings ==
  {NoTime, [kind |-> "invalid", t |-> 0], [kind |-> "naive", t |-> 0],
   isoformat(0), isoformat(1)}

\* "NoResponse": the store accepts the request and never answers it.
GetOutcomes == {"ok", "ConnectionError", "HTTPError", "NoResponse"}
PostOutcomes == {"ok", "ConnectionError", "HTTPError", "NoResponse"}

\* The timeout= argument of requests.get / requests.post; none is passed,
\* and requests then waits for the answer without limit.
RequestTimeout == "None"

\* --------------------------------------------------------- return values
ReturnNone == [kind |-> "None", agent |-> "", seconds |-> 0]
ReturnContent(name, secs) == [kind |-> "Content", agent |-> name, seconds |-> secs]
Raised(exc) == [kind |-> exc, agent |-> "", seconds |-> 0]
NotReturned == [kind |-> "running", agent |-> "", seconds |-> 0]

\* ------------------------------------------------------ session.state
\* A dict is a function whose domain is the set of keys present.
EmptyDict == [k \in {} |-> ""]

\* d[k] = v
SetItem(d, k, v) == [x \in DOMAIN d \cup {k} |-> IF x = k THEN v ELSE d[x]]

VARIABLES
  now,                      \* datetime.now(timezone.utc), in ticks
  COOLDOWN_PERIOD_SECONDS,  \* the configured period, in seconds
  store,                    \* cooldown store: node name -> "time" field
  granted,                  \* history: tick of the last recorded grant per node
  active,                   \* the runs taking part in this behaviour
  pc,                       \* per run: position inside check_cool_down
  agent_name,               \* per run: callback_context.agent_name
  get_outcome,              \* per run: outcome of the GET
  last_used_str,            \* per run: data.get("time")
  checked_at,               \* per run: the now() of line 115
  time_since_last_use,      \* per run: timedelta of line 115, in ticks
  current_time_iso,         \* per run: the timestamp built at line 133
  post_outcome,             \* per run: outcome of the POST ("none" if not sent)
  ret,                      \* per run: what check_cool_down returned
  orch,                     \* the invocation of agent_1's root_agent
  node_state,               \* per node: Pending, Denied, Running, Succeeded, Failed
  consulted,                \* per node: gate consultations keyed by its name
  admitted,                 \* per node: consultations that returned None
  starts,                   \* per node: times the node started executing
  server,                   \* which MCP server module is running
  available_tools,          \* the tool registry (names, in insertion order)
  tool_request,             \* the last call_tool request
  tool_reply,               \* what the last call_tool returned
  tool_ran,                 \* the tool the last call_tool executed, if any
  tool_runs,                \* per registered tool: executions so far
  list_reply,               \* what the last list_tools returned
  session_state,            \* session.state: a dict, key -> value
  pipeline,                 \* the invocation of agent4's root_agent
  agent_state,              \* per agent4 node: Pending, Running, Succeeded, ...
  session_events,           \* session.events of the agent4 invocation
  llm_request,              \* per agent4 LLM agent: whether a model request is out
  executions,               \* per agent4 node: times it started executing
  orchestrator,             \* the conversation with agent3's root_agent
  last_finished,            \* history: the remote agent that finished last
  callback,                 \* the last call of save_last_action_callback
  COOLDOWN_API_URL,         \* cooldown_plugin: os.environ.get("API_SERVER_URL")
  plugin_store,             \* the plugin's backend: user id -> tick of the record
  plugin_pc,                \* position inside CooldownPlugin.on_agent_request
  plugin_call,              \* the current (or last) call of on_agent_request
  last_recorder,            \* history: who made the request recorded last
  root_agent,               \* diagnose: the global root_agent (0 for None)
  build_log,                \* history: the runs of get_agent_async
  loader,                   \* how far the import of the diagnose module is
  task_pc,                  \* per task: position inside initialize()
  task_result,              \* per task: what get_agent_async returned to it
  loop_current,             \* the task the event loop is running, if any
  helper_result             \* the last call of get_agent / is_system_ready

gateVars ==
  <<store, granted, pc, agent_name, get_outcome, last_used_str, checked_at,
    time_since_last_use, current_time_iso, post_outcome, ret>>

orchVars == <<orch, node_state, consulted, admitted, starts>>

toolVars ==
  <<server, available_tools, tool_request, tool_reply, tool_ran, tool_runs,
    list_reply>>

pluginVars ==
  <<COOLDOWN_API_URL, plugin_store, plugin_pc, plugin_call, last_recorder>>

diagnoseVars ==
  <<root_agent, build_log, loader, task_pc, task_result, loop_current,
    helper_result>>

flowVars ==
  <<pipeline, agent_state, session_events, llm_request, executions,
    orchestrator, last_finished, callback, pluginVars, diagnoseVars>>

vars ==
  <<now, COOLDOWN_PERIOD_SECONDS, active, gateVars, orchVars, toolVars,
    session_state, flowVars>>

\* ------------------------------------------------ pure parts of the gate
\* timedelta(seconds=COOLDOWN_PERIOD_SECONDS), in ticks
PeriodTicks == COOLDOWN_PERIOD_SECONDS * TicksPerSecond

\* `if last_used_str:` -- None and "" are both falsy
Truthy(s) == s.kind # "absent"

\* datetime.fromisoformat(last_used_str): "ok", or the exception it raises
FromIsoOutcome(s) == IF s.kind = "invalid" THEN "ValueError" ELSE "ok"

\* datetime.now(timezone.utc) - last_used_time: an aware minus a naive
\* datetime raises TypeError
SubtractOutcome(s) == IF s.kind = "naive" THEN "TypeError" ELSE "ok"

\* int(x) for the rational x = num / TicksPerSecond: truncation toward zero
IntTrunc(num) ==
  IF num >= 0 THEN num \div TicksPerSecond
  ELSE -((-num) \div TicksPerSecond)

\* time_since_last_use < timedelta(seconds=COOLDOWN_PERIOD_SECONDS)
InCooldownInclusive(elapsed) == elapsed <= PeriodTicks

InCooldown(elapsed) == elapsed < PeriodTicks

\* int(COOLDOWN_PERIOD_SECONDS - time_since_last_use.total_seconds())
SecondsRemainingRoundedUp(elapsed) ==
  IntTrunc(PeriodTicks - elapsed + TicksPerSecond - 1)

SecondsRemaining(elapsed) == IntTrunc(PeriodTicks - elapsed)

\* --------------------------------------------------- MCP servers: strings
\* A string is a sequence of pieces; the double quote and the backslash are
\* pieces of their own, because json.dumps rewrites them.
Quote == "\""
Backslash == "\\"

RECURSIVE JsonEscape(_)
JsonEscape(str) ==
  IF str = <<>> THEN <<>>
  ELSE IF Head(str) \in {Quote, Backslash}
    THEN <<Backslash, Head(str)>> \o JsonEscape(Tail(str))
  ELSE <<Head(str)>> \o JsonEscape(Tail(str))

RECURSIVE JsonUnescape(_)
JsonUnescape(str) ==
  IF str = <<>> THEN <<>>
  ELSE IF Head(str) = Backslash /\ Len(str) >= 2
    THEN <<str[2]>> \o JsonUnescape(Tail(Tail(str)))
  ELSE <<Head(str)>> \o JsonUnescape(Tail(str))

\* json.dumps(s) for a str s
JsonDumpsStr(str) == <<Quote>> \o JsonEscape(str) \o <<Quote>>

\* json.dumps({"error": message})
ErrorOpen == <<"{", Quote, "error", Quote, ":", " ">>
JsonDumpsError(message) == ErrorOpen \o JsonDumpsStr(message) \o <<"}">>

\* f"Tool '{name}' not implemented."
NotImplementedTextUnnamed(name) == <<"Tool", " ", "not implemented", ".">>

NotImplementedText(name) ==
  <<"Tool", " ", "'">> \o name \o <<"'", " ", "not implemented", ".">>

\* f"Failed to execute tool '{name}': {str(e)}"
FailedText(name, message) ==
  <<"Failed to execute tool", " ", "'">> \o name \o <<"'", ":", " ">> \o message

\* str(e) of the TypeError json.dumps raises for a response it cannot encode
NotSerializableMessage == <<"Object of type", " ", "set", " ", "is not JSON serializable">>

\* The registries of the two server modules (FunctionTool(f).name is f.__name__).
ApiTools == << <<"your_first_function">>, <<"your_second_function">> >>
GeneralTools ==
  << <<"your_calculation_function">>, <<"your_processing_function">>,
     <<"your_data_function">> >>

Servers == {"api", "general"}
RegistryOf(srv) == IF srv = "api" THEN ApiTools ELSE GeneralTools

Range(f) == {f[i] : i \in DOMAIN f}

\* Names a client may ask for.
NameInputs ==
  Range(ApiTools) \cup Range(GeneralTools) \cup
  { <<>>, <<"no_such_tool">>, <<"say", Quote, "hi", Quote>>,
    <<"C:", Backslash, "tool">> }

ArgumentInputs == {"empty", "matching", "mismatching"}

\* What the bound capability does with a call: it raises an exception whose
\* str() is text, or returns text as its response -- a response json.dumps
\* may be unable to encode.
CapabilityOutcomes ==
  [raises : {TRUE}, serializable : {TRUE},
   text : { <<"boom">>, <<"bad", " ", Quote, "x", Quote>> }]
  \cup
  [raises : {FALSE}, serializable : BOOLEAN,
   text : { <<"Success!">>, <<"path", " ", "C:", Backslash, "x">> }]

NoRequest == [name |-> <<>>, arguments |-> "none"]
NoReply == [kind |-> "none", text |-> <<>>]
\* [mcp_types.TextContent(type="text", text=...)]
TextReply(text) == [kind |-> "TextContent", text |-> text]
RaisedReply(exc) == [kind |-> exc, text |-> <<>>]
NoOutcome == [raises |-> FALSE, serializable |-> TRUE, text |-> <<>>]
NoTool == [ran |-> FALSE, name |-> <<>>, outcome |-> NoOutcome]

\* What looking a name up leaves of the registry: available_tools.get(name)
\* reads the dict and removes nothing.
RegistryAfterPop(registry, name) == SelectSeq(registry, LAMBDA x : x # name)

RegistryAfterGet(registry, name) == registry

\* adk_to_mcp_tool_type(tool_instance): the MCP descriptor of a tool
adk_to_mcp_tool_type(tool_instance) ==
  [name |-> tool_instance, inputSchema |-> "object"]

\* available_tools.get(name): the position of name in the registry, 0 if absent
Lookup(registry, name) ==
  IF \E i \in DOMAIN registry : registry[i] = name
    THEN CHOOSE i \in DOMAIN registry : registry[i] = name
    ELSE 0

\* The try block of call_tool with its except Exception handler; json.dumps
\* of the response is inside the try.
ExecuteReplyDumpsOutsideTry(name, cap) ==
  IF cap.raises
    THEN TextReply(JsonDumpsError(FailedText(name, cap.text)))
  ELSE IF ~cap.serializable
    THEN RaisedReply("TypeError")
  ELSE TextReply(JsonDumpsStr(cap.text))

ExecuteReply(name, cap) ==
  IF cap.raises
    THEN TextReply(JsonDumpsError(FailedText(name, cap.text)))
  ELSE IF ~cap.serializable
    THEN TextReply(JsonDumpsError(FailedText(name, NotSerializableMessage)))
  ELSE TextReply(JsonDumpsStr(cap.text))

\* The else branch of call_tool.
UnknownReply(name) == TextReply(JsonDumpsError(NotImplementedText(name)))

\* `except requests.exceptions.RequestException` around the GET: entered by
\* a connection failure and by raise_for_status() on an error status.
RequestFailedNoStatusCheck(o) == o = "ConnectionError"

RequestFailed(o) == o # "ok"

\* What check_cool_down returns once the POST has been answered or has failed:
\* the RequestException is caught and the status is not looked at.
\* Where check_cool_down is after it has built the denial: `return
\* types.Content(...)` leaves the function, the POST below is not reached.
AfterDenialFallThrough == "stamp"

AfterDenial == "done"

\* A request the store never answers does not end: no timeout was passed.
Unanswered(o) == o = "NoResponse" /\ RequestTimeout = "None"

PostReturnUncaught(o) == IF o = "ConnectionError" THEN Raised(o) ELSE ReturnNone

PostReturn(o) == ReturnNone

\* ------------------------------------- agent4: the agents and their wiring
DataCollector1Name == "data_collector_1"
DataCollector2Name == "data_collector_2"
ParallelGroupName == "parallel_data_collectors"
ResultsSynthesizerName == "results_synthesizer"
ParallelSystemName == "parallel_processing_system"

\* parallel_group = ParallelAgent(sub_agents=[...])
parallel_group == <<DataCollector1Name, DataCollector2Name>>

\* root_agent = SequentialAgent(sub_agents=[parallel_group, results_processor])
parallel_processing_system == <<ParallelGroupName, ResultsSynthesizerName>>

Collectors == Range(parallel_group)
LlmAgents == Collectors \cup {ResultsSynthesizerName}
PipelineNodes == LlmAgents \cup {ParallelGroupName, ParallelSystemName}

\* The request that started the invocation: an event every agent sees.
UserEvent == [author |-> "user", final |-> TRUE]
Authors == LlmAgents \cup {"user"}

NoLlmRequest == [sent |-> FALSE]

PipelineOff == [phase |-> "off", idx |-> 0]

\* ------------------------------------- agent3: the agents and their wiring
FirstServiceAgentName == "first_service_agent"
SecondServiceAgentName == "second_service_agent"
ThirdServiceAgentName == "third_service_agent"
MasterOrchestratorName == "master_orchestrator"

\* root_agent's sub_agents
RemoteAgents ==
  {FirstServiceAgentName, SecondServiceAgentName, ThirdServiceAgentName}

\* root_agent has sub_agents and no tools: the one function its model can
\* call is the transfer to a sub-agent.
TransferToolName == "transfer_to_agent"
OrchestratorTools == {TransferToolName}

NoCallback ==
  [called |-> FALSE, tool |-> "", tool_response |-> "", returned |-> "",
   state_before |-> EmptyDict]

OrchestratorOff == [phase |-> "off", target |-> ""]

\* ------------------------------------------- cooldown_plugin: the values
\* _extract_user_id returns one constant for every request.
DefaultUser == "default_user"

\* Who sends requests: the agent handling it and the session it belongs to.
PluginAgents == {FirstAgentName, SecondAgentName}
Sessions == {"session1", "session2"}
Requests == {"request1", "request2"}

\* The user ids the backend could be asked about.
UserIds == {DefaultUser} \cup Sessions

\* How a request to the backend can end: a 200 answer that carries the
\* field asked for, a 200 answer without it, a 200 answer that is not JSON,
\* another status, or an exception raised by requests (timeout included).
BackendOutcomes ==
  {"ok", "no_field", "bad_json", "status_500", "ConnectionError", "Timeout"}

NoCaller == [agent |-> "", session |-> ""]

NoPluginCall ==
  [agent |-> "", session |-> "", request |-> "", user_id |-> "",
   branch |-> "", check |-> "none", in_cooldown |-> FALSE,
   record |-> "none", recorded |-> FALSE, remaining |-> "none",
   remaining_time |-> -1, reported |-> FALSE,
   result |-> [kind |-> "running", request |-> ""]]

InitPluginOff ==
  /\ COOLDOWN_API_URL = "None"
  /\ plugin_store = [u \in UserIds |-> -1]
  /\ plugin_pc = "off"
  /\ plugin_call = NoPluginCall
  /\ last_recorder = NoCaller

\* ---------------------------------------------------- diagnose: the values
Tasks == {"task1", "task2"}

NoHelperCall ==
  [called |-> "none", root_agent |-> 0, outcome |-> "none", value |-> 0,
   ready |-> FALSE]

InitDiagnoseOff ==
  /\ root_agent = 0
  /\ build_log = <<>>
  /\ loader = "off"
  /\ task_pc = [t \in Tasks |-> "idle"]
  /\ task_result = [t \in Tasks |-> 0]
  /\ loop_current = ""
  /\ helper_result = NoHelperCall

\* ---------------------------------------------------------------- Init
InitAgentsOff ==
  /\ pipeline = PipelineOff
  /\ agent_state = [n \in PipelineNodes |-> "Pending"]
  /\ session_events = <<>>
  /\ llm_request = [a \in LlmAgents |-> NoLlmRequest]
  /\ executions = [n \in PipelineNodes |-> 0]
  /\ orchestrator = OrchestratorOff
  /\ last_finished = ""
  /\ callback = NoCallback

InitFlowOff ==
  /\ InitAgentsOff
  /\ InitPluginOff
  /\ InitDiagnoseOff

InitToolsOff ==
  /\ server = "api"
  /\ available_tools = RegistryOf("api")
  /\ tool_request = NoRequest
  /\ tool_reply = NoReply
  /\ tool_ran = NoTool
  /\ tool_runs = [i \in DOMAIN RegistryOf("api") |-> 0]
  /\ list_reply = <<>>

InitRunLocals ==
  /\ pc = [r \in Runs |-> "idle"]
  /\ agent_name = [r \in Runs |-> ""]
  /\ get_outcome = [r \in Runs |-> "none"]
  /\ last_used_str = [r \in Runs |-> NoTime]
  /\ checked_at = [r \in Runs |-> 0]
  /\ time_since_last_use = [r \in Runs |-> 0]
  /\ current_time_iso = [r \in Runs |-> NoTime]
  /\ post_outcome = [r \in Runs |-> "none"]
  /\ ret = [r \in Runs |-> NotReturned]

\* No invocation of the root agent is in progress.
OrchOff == [phase |-> "off", times_looped |-> 0, idx |-> 0]

InitOrchOff ==
  /\ orch = OrchOff
  /\ node_state = [n \in Nodes |-> "Pending"]
  /\ consulted = [n \in Nodes |-> 0]
  /\ admitted = [n \in Nodes |-> 0]
  /\ starts = [n \in Nodes |-> 0]

\* Several runs against a store with no prior record.
Init ==
  /\ now = 0
  /\ session_state = EmptyDict
  /\ InitFlowOff
  /\ COOLDOWN_PERIOD_SECONDS \in Periods
  /\ store = [n \in GateNodes |-> NoTime]
  /\ granted = [n \in GateNodes |-> -1]
  /\ active = Runs
  /\ InitRunLocals
  /\ InitOrchOff
  /\ InitToolsOff

\* One run against a store that may already hold records left by others.
InitSeeded ==
  /\ now = 0
  /\ session_state = EmptyDict
  /\ InitFlowOff
  /\ COOLDOWN_PERIOD_SECONDS \in Periods
  /\ store \in [GateNodes -> SeedStrings]
  /\ granted = [n \in GateNodes |-> -1]
  /\ active = {"run1"}
  /\ InitRunLocals
  /\ InitOrchOff
  /\ InitToolsOff

\* One invocation of agent_1's root_agent, against a store that may
\* already hold records.
InitOrch ==
  /\ now = 0
  /\ session_state = EmptyDict
  /\ InitFlowOff
  /\ COOLDOWN_PERIOD_SECONDS \in Periods
  /\ store \in [GateNodes -> SeedStrings]
  /\ granted = [n \in GateNodes |-> -1]
  /\ active = {"run1"}
  /\ InitRunLocals
  /\ orch = [phase |-> "new", times_looped |-> 0, idx |-> 1]
  /\ node_state = [n \in Nodes |-> "Pending"]
  /\ consulted = [n \in Nodes |-> 0]
  /\ admitted = [n \in Nodes |-> 0]
  /\ starts = [n \in Nodes |-> 0]
  /\ InitToolsOff

\* One of the MCP servers, freshly started.
InitTools ==
  /\ now = 0
  /\ session_state = EmptyDict
  /\ InitFlowOff
  /\ COOLDOWN_PERIOD_SECONDS = 1
  /\ store = [n \in GateNodes |-> NoTime]
  /\ granted = [n \in GateNodes |-> -1]
  /\ active = {}
  /\ InitRunLocals
  /\ InitOrchOff
  /\ server \in Servers
  /\ available_tools = RegistryOf(server)
  /\ tool_request = NoRequest
  /\ tool_reply = NoReply
  /\ tool_ran = NoTool
  /\ tool_runs = [i \in DOMAIN RegistryOf(server) |-> 0]
  /\ list_reply = <<>>

\* One run at a time against a store with no prior record.
InitSeq ==
  /\ now = 0
  /\ session_state = EmptyDict
  /\ InitFlowOff
  /\ COOLDOWN_PERIOD_SECONDS \in Periods
  /\ store = [n \in GateNodes |-> NoTime]
  /\ granted = [n \in GateNodes |-> -1]
  /\ active = {"run1"}
  /\ InitRunLocals
  /\ InitOrchOff
  /\ InitToolsOff

\* ------------------------------------------------------- check_cool_down
\* Lines 93-107: read agent_name, GET the record.  A RequestException
\* (connection failure, or raise_for_status on an error status) returns None.
\* While no answer comes the call stays inside requests.get.
CallStep(r, n) ==
  /\ r \in active
  /\ pc[r] = "idle"
  /\ agent_name' = [agent_name EXCEPT ![r] = n]
  /\ \E o \in GetOutcomes :
       /\ get_outcome' = [get_outcome EXCEPT ![r] = o]
       /\ IF Unanswered(o)
            THEN /\ last_used_str' = [last_used_str EXCEPT ![r] = NoTime]
                 /\ pc' = [pc EXCEPT ![r] = "get"]
                 /\ ret' = [ret EXCEPT ![r] = NotReturned]
          ELSE IF RequestFailed(o)
            THEN /\ last_used_str' = [last_used_str EXCEPT ![r] = NoTime]
                 /\ pc' = [pc EXCEPT ![r] = "done"]
                 /\ ret' = [ret EXCEPT ![r] = ReturnNone]
            ELSE /\ last_used_str' = [last_used_str EXCEPT ![r] = store[n]]
                 /\ pc' = [pc EXCEPT ![r] = "eval"]
                 /\ ret' = [ret EXCEPT ![r] = NotReturned]
  /\ checked_at' = [checked_at EXCEPT ![r] = 0]
  /\ time_since_last_use' = [time_since_last_use EXCEPT ![r] = 0]
  /\ current_time_iso' = [current_time_iso EXCEPT ![r] = NoTime]
  /\ post_outcome' = [post_outcome EXCEPT ![r] = "none"]
  /\ UNCHANGED <<now, COOLDOWN_PERIOD_SECONDS, active, flowVars, session_state, store, granted>>

Call(r, n) == CallStep(r, n) /\ UNCHANGED <<orchVars, toolVars>>

\* Lines 111-129: evaluate the record read against the clock read at line
\* 115 and decide.
Evaluate(r) ==
  /\ pc[r] = "eval"
  /\ checked_at' = [checked_at EXCEPT ![r] = now]
  /\ LET s == last_used_str[r]
         elapsed == now - s.t
     IN
       IF ~Truthy(s)
         THEN /\ pc' = [pc EXCEPT ![r] = "stamp"]
              /\ UNCHANGED <<time_since_last_use, ret>>
       ELSE IF FromIsoOutcome(s) # "ok"
         THEN /\ pc' = [pc EXCEPT ![r] = "done"]
              /\ ret' = [ret EXCEPT ![r] = Raised(FromIsoOutcome(s))]
              /\ UNCHANGED time_since_last_use
       ELSE IF SubtractOutcome(s) # "ok"
         THEN /\ pc' = [pc EXCEPT ![r] = "done"]
              /\ ret' = [ret EXCEPT ![r] = Raised(SubtractOutcome(s))]
              /\ UNCHANGED time_since_last_use
       ELSE /\ time_since_last_use' = [time_since_last_use EXCEPT ![r] = elapsed]
            /\ IF InCooldown(elapsed)
                 THEN /\ pc' = [pc EXCEPT ![r] = AfterDenial]
                      /\ ret' = [ret EXCEPT ![r] =
                                   ReturnContent(agent_name[r], SecondsRemaining(elapsed))]
                 ELSE /\ pc' = [pc EXCEPT ![r] = "stamp"]
                      /\ UNCHANGED ret
  /\ UNCHANGED <<now, COOLDOWN_PERIOD_SECONDS, active, flowVars, session_state, store, granted,
                 agent_name, get_outcome, last_used_str, current_time_iso, post_outcome,
                 orchVars, toolVars>>

\* Lines 133-134: the clock is read a second time and the timestamp to
\* store is built from that reading.
Stamp(r) ==
  /\ pc[r] = "stamp"
  /\ current_time_iso' = [current_time_iso EXCEPT ![r] = isoformat(now)]
  /\ pc' = [pc EXCEPT ![r] = "post"]
  /\ UNCHANGED <<now, COOLDOWN_PERIOD_SECONDS, active, flowVars, session_state, store, granted,
                 agent_name, get_outcome, last_used_str, checked_at, time_since_last_use,
                 post_outcome, ret, orchVars, toolVars>>

\* Lines 137-146: POST the timestamp; a RequestException is caught, an error
\* status is not looked at; return None either way.  While no answer comes
\* the call stays inside requests.post.
Post(r) ==
  /\ pc[r] = "post"
  /\ \E o \in PostOutcomes :
       /\ post_outcome' = [post_outcome EXCEPT ![r] = o]
       /\ IF o = "ok"
            THEN /\ store' = [store EXCEPT ![agent_name[r]] = current_time_iso[r]]
                 /\ granted' = [granted EXCEPT ![agent_name[r]] = current_time_iso[r].t]
            ELSE UNCHANGED <<store, granted>>
       /\ IF Unanswered(o)
            THEN /\ pc' = [pc EXCEPT ![r] = "posting"]
                 /\ UNCHANGED ret
            ELSE /\ pc' = [pc EXCEPT ![r] = "done"]
                 /\ ret' = [ret EXCEPT ![r] = PostReturn(o)]
  /\ UNCHANGED <<now, COOLDOWN_PERIOD_SECONDS, active, flowVars, session_state, agent_name, get_outcome,
                 last_used_str, checked_at, time_since_last_use, current_time_iso,
                 orchVars, toolVars>>

\* The caller has taken the return value; the frame of the call is gone and
\* the run may consult the gate again.
ReturnStep(r) ==
  /\ pc[r] = "done"
  /\ pc' = [pc EXCEPT ![r] = "idle"]
  /\ agent_name' = [agent_name EXCEPT ![r] = ""]
  /\ get_outcome' = [get_outcome EXCEPT ![r] = "none"]
  /\ last_used_str' = [last_used_str EXCEPT ![r] = NoTime]
  /\ checked_at' = [checked_at EXCEPT ![r] = 0]
  /\ time_since_last_use' = [time_since_last_use EXCEPT ![r] = 0]
  /\ current_time_iso' = [current_time_iso EXCEPT ![r] = NoTime]
  /\ post_outcome' = [post_outcome EXCEPT ![r] = "none"]
  /\ ret' = [ret EXCEPT ![r] = NotReturned]
  /\ UNCHANGED <<now, COOLDOWN_PERIOD_SECONDS, active, flowVars, session_state, store, granted>>

Return(r) == ReturnStep(r) /\ UNCHANGED <<orchVars, toolVars>>

\* The clock advances.
Tick ==
  /\ now < MaxNow
  /\ now' = now + 1
  /\ UNCHANGED <<COOLDOWN_PERIOD_SECONDS, active, flowVars, session_state, gateVars, orchVars, toolVars>>

\* ------------------------------------------- agent_1: root_agent (LoopAgent)
\* sub_agents=[first_agent, second_agent], max_iterations=2,
\* before_agent_callback=check_cool_down on the LoopAgent itself.
sub_agents == <<FirstAgentName, SecondAgentName>>
max_iterations == 2

\* The output_key each agent object was constructed with ("" for none), and
\* the text of an agent's final response.
output_key(n) == IF n = SecondAgentName THEN "final_result" ELSE ""

FinalResponse(n) == "response of " \o n

\* The before_agent_callback each agent object was constructed with.
BeforeAgentCallback(n) ==
  IF n = RootAgentName THEN "check_cool_down" ELSE "none"

OrchRun == "run1"

gateFrame ==
  <<store, granted, pc, agent_name, get_outcome, last_used_str, checked_at,
    time_since_last_use, current_time_iso, post_outcome, ret>>

\* The root agent is entered: its before_agent_callback runs first, with the
\* root agent's name in the callback context.
RootEnter ==
  /\ orch.phase = "new"
  /\ BeforeAgentCallback(RootAgentName) = "check_cool_down"
  /\ CallStep(OrchRun, RootAgentName)
  /\ consulted' = [consulted EXCEPT ![RootAgentName] = @ + 1]
  /\ orch' = [orch EXCEPT !.phase = "root_gate"]
  /\ UNCHANGED <<node_state, admitted, starts, toolVars>>

\* The callback has returned.  None: the LoopAgent starts its loop.  Content:
\* the content replaces the agent's output and the invocation ends, no
\* sub-agent is run.  An exception leaves the run.
RootAdmission ==
  /\ orch.phase = "root_gate"
  /\ pc[OrchRun] = "done"
  /\ ReturnStep(OrchRun)
  /\ IF ret[OrchRun].kind = "None"
       THEN /\ orch' = [phase |-> "loop", times_looped |-> 0, idx |-> 1]
            /\ node_state' = [node_state EXCEPT ![RootAgentName] = "Running"]
            /\ admitted' = [admitted EXCEPT ![RootAgentName] = @ + 1]
            /\ starts' = [starts EXCEPT ![RootAgentName] = @ + 1]
     ELSE IF ret[OrchRun].kind = "Content"
       THEN /\ orch' = [orch EXCEPT !.phase = "finished"]
            /\ node_state' = [node_state EXCEPT ![RootAgentName] = "Denied"]
            /\ UNCHANGED <<admitted, starts>>
     ELSE /\ orch' = [orch EXCEPT !.phase = "crashed"]
          /\ node_state' = [node_state EXCEPT ![RootAgentName] = "Failed"]
          /\ UNCHANGED <<admitted, starts>>
  /\ UNCHANGED <<consulted, toolVars>>

\* The loop runs the next sub-agent.  The sub-agents were constructed
\* without a before_agent_callback, so nothing is consulted for them.
ChildEnter ==
  /\ orch.phase = "loop"
  /\ LET c == sub_agents[orch.idx] IN
       /\ node_state[c] # "Running"
       /\ BeforeAgentCallback(c) = "none"
       /\ node_state' = [node_state EXCEPT ![c] = "Running"]
       /\ starts' = [starts EXCEPT ![c] = @ + 1]
  /\ UNCHANGED <<now, COOLDOWN_PERIOD_SECONDS, active, flowVars, session_state, gateFrame,
                 orch, consulted, admitted, toolVars>>

\* The running sub-agent finishes; the loop moves on, and ends after
\* max_iterations passes over sub_agents.
ChildSucceed ==
  /\ orch.phase = "loop"
  /\ LET c == sub_agents[orch.idx]
         lastChild == orch.idx = Len(sub_agents)
         looped == IF lastChild THEN orch.times_looped + 1 ELSE orch.times_looped
     IN
       /\ node_state[c] = "Running"
       /\ IF lastChild /\ looped >= max_iterations
            THEN /\ orch' = [phase |-> "finished", times_looped |-> looped, idx |-> 1]
                 /\ node_state' = [node_state EXCEPT ![c] = "Succeeded",
                                                     ![RootAgentName] = "Succeeded"]
            ELSE /\ orch' = [phase |-> "loop", times_looped |-> looped,
                             idx |-> IF lastChild THEN 1 ELSE orch.idx + 1]
                 /\ node_state' = [node_state EXCEPT ![c] = "Succeeded"]
       /\ session_state' =
            IF output_key(c) # ""
              THEN SetItem(session_state, output_key(c), FinalResponse(c))
              ELSE session_state
  /\ UNCHANGED <<now, COOLDOWN_PERIOD_SECONDS, active, flowVars, gateFrame,
                 consulted, admitted, starts, toolVars>>

\* The running sub-agent raises; nothing in the loop catches it.
ChildFail ==
  /\ orch.phase = "loop"
  /\ LET c == sub_agents[orch.idx] IN
       /\ node_state[c] = "Running"
       /\ node_state' = [node_state EXCEPT ![c] = "Failed", ![RootAgentName] = "Failed"]
  /\ orch' = [orch EXCEPT !.phase = "crashed"]
  /\ UNCHANGED <<now, COOLDOWN_PERIOD_SECONDS, active, flowVars, session_state, gateFrame,
                 consulted, admitted, starts, toolVars>>

\* A new request arrives: a fresh invocation of the same root agent.
NewInvocation ==
  /\ orch.phase \in {"finished", "crashed"}
  /\ orch' = [phase |-> "new", times_looped |-> 0, idx |-> 1]
  /\ node_state' = [n \in Nodes |-> "Pending"]
  /\ consulted' = [n \in Nodes |-> 0]
  /\ admitted' = [n \in Nodes |-> 0]
  /\ starts' = [n \in Nodes |-> 0]
  /\ UNCHANGED <<now, COOLDOWN_PERIOD_SECONDS, active, flowVars, session_state, gateFrame, toolVars>>

NextOrch ==
  \/ RootEnter
  \/ Evaluate(OrchRun)
  \/ Stamp(OrchRun)
  \/ Post(OrchRun)
  \/ RootAdmission
  \/ ChildEnter
  \/ ChildSucceed
  \/ ChildFail
  \/ NewInvocation
  \/ Tick

SpecOrch == InitOrch /\ [][NextOrch]_vars

\* ------------------------------------------- MCP servers: the two handlers
MaxToolRuns == 2

\* call_tool(name, arguments)
call_tool(name, arguments) ==
  /\ tool_request' = [name |-> name, arguments |-> arguments]
  /\ LET tool_to_call == Lookup(available_tools, name) IN
       IF tool_to_call # 0
         THEN /\ tool_runs[tool_to_call] < MaxToolRuns
              /\ \E cap \in CapabilityOutcomes :
                   /\ tool_reply' = ExecuteReply(name, cap)
                   /\ tool_ran' = [ran |-> TRUE,
                                   name |-> available_tools[tool_to_call],
                                   outcome |-> cap]
              /\ tool_runs' = [tool_runs EXCEPT ![tool_to_call] = @ + 1]
         ELSE /\ tool_reply' = UnknownReply(name)
              /\ tool_ran' = NoTool
              /\ UNCHANGED tool_runs
  /\ available_tools' = RegistryAfterGet(available_tools, name)
  /\ UNCHANGED <<now, COOLDOWN_PERIOD_SECONDS, active, flowVars, session_state, gateVars, orchVars,
                 server, list_reply>>

\* list_tools(): one descriptor per entry of available_tools, in order
list_tools ==
  /\ list_reply' =
       [i \in DOMAIN available_tools |-> adk_to_mcp_tool_type(available_tools[i])]
  /\ UNCHANGED <<now, COOLDOWN_PERIOD_SECONDS, active, flowVars, session_state, gateVars, orchVars,
                 server, available_tools, tool_request, tool_reply, tool_ran,
                 tool_runs>>

NextTools ==
  \/ \E name \in NameInputs, arguments \in ArgumentInputs :
       call_tool(name, arguments)
  \/ list_tools

SpecTools == InitTools /\ [][NextTools]_vars

\* --------------------------- agent4: root_agent (SequentialAgent) at work
pipelineFrame ==
  <<now, COOLDOWN_PERIOD_SECONDS, active, gateVars, orchVars, toolVars,
    session_state, orchestrator, last_finished, callback, pluginVars,
    diagnoseVars>>

\* One invocation of agent4's root_agent on a new session.
InitPipeline ==
  /\ now = 0
  /\ COOLDOWN_PERIOD_SECONDS = 1
  /\ session_state = EmptyDict
  /\ store = [n \in GateNodes |-> NoTime]
  /\ granted = [n \in GateNodes |-> -1]
  /\ active = {}
  /\ InitRunLocals
  /\ InitOrchOff
  /\ InitToolsOff
  /\ pipeline = [phase |-> "new", idx |-> 0]
  /\ agent_state = [n \in PipelineNodes |-> "Pending"]
  /\ session_events = <<UserEvent>>
  /\ llm_request = [a \in LlmAgents |-> NoLlmRequest]
  /\ executions = [n \in PipelineNodes |-> 0]
  /\ orchestrator = OrchestratorOff
  /\ last_finished = ""
  /\ callback = NoCallback
  /\ InitPluginOff
  /\ InitDiagnoseOff

\* The SequentialAgent starts and turns to its first sub-agent.
SequentialEnter ==
  /\ pipeline.phase = "new"
  /\ pipeline' = [phase |-> "running", idx |-> 1]
  /\ agent_state' = [agent_state EXCEPT ![ParallelSystemName] = "Running"]
  /\ executions' = [executions EXCEPT ![ParallelSystemName] = @ + 1]
  /\ UNCHANGED <<session_events, llm_request, pipelineFrame>>

\* The ParallelAgent, first in the sequence, starts.
ParallelEnter ==
  /\ pipeline.phase = "running"
  /\ parallel_processing_system[pipeline.idx] = ParallelGroupName
  /\ agent_state[ParallelGroupName] = "Pending"
  /\ agent_state' = [agent_state EXCEPT ![ParallelGroupName] = "Running"]
  /\ executions' = [executions EXCEPT ![ParallelGroupName] = @ + 1]
  /\ UNCHANGED <<pipeline, session_events, llm_request, pipelineFrame>>

\* A sub-agent of the running ParallelAgent gets to run.
CollectorStart(c) ==
  /\ agent_state[ParallelGroupName] = "Running"
  /\ agent_state[c] = "Pending"
  /\ agent_state' = [agent_state EXCEPT ![c] = "Running"]
  /\ executions' = [executions EXCEPT ![c] = @ + 1]
  /\ UNCHANGED <<pipeline, session_events, llm_request, pipelineFrame>>

\* A running LLM agent sends a request to its model.
LlmStep(a) ==
  /\ agent_state[a] = "Running"
  /\ ~llm_request[a].sent
  /\ llm_request' = [llm_request EXCEPT ![a] = [sent |-> TRUE]]
  /\ UNCHANGED <<pipeline, agent_state, session_events, executions,
                 pipelineFrame>>

\* The model answers with a function call: the agent runs the tool, the
\* call and its result become an event of the session, and the agent has
\* to ask its model again.
MaxToolCalls == 1

ToolCallsOf(a, events) ==
  Cardinality({i \in DOMAIN events : events[i].author = a /\ ~events[i].final})

LlmToolCall(a) ==
  /\ agent_state[a] = "Running"
  /\ llm_request[a].sent
  /\ ToolCallsOf(a, session_events) < MaxToolCalls
  /\ session_events' =
       Append(session_events,
              [author |-> a, final |-> FALSE])
  /\ llm_request' = [llm_request EXCEPT ![a].sent = FALSE]
  /\ UNCHANGED <<pipeline, agent_state, executions, pipelineFrame>>

\* A collector gives its final response: an event is added to the session.
\* The collectors are constructed without output_key and without callbacks,
\* so session.state is left as it is.
CollectorFinish(c) ==
  /\ agent_state[c] = "Running"
  /\ llm_request[c].sent
  /\ session_events' =
       Append(session_events,
              [author |-> c, final |-> TRUE])
  /\ agent_state' = [agent_state EXCEPT ![c] = "Succeeded"]
  /\ UNCHANGED <<pipeline, llm_request, executions, pipelineFrame>>

\* A collector raises.  Neither the ParallelAgent nor the SequentialAgent
\* catches it: the sibling still at work is cancelled and the invocation
\* ends with the exception.
CollectorFail(c) ==
  /\ agent_state[c] = "Running"
  /\ agent_state' =
       [n \in PipelineNodes |->
          IF n \in {c, ParallelGroupName, ParallelSystemName} THEN "Failed"
          ELSE IF n \in Collectors /\ agent_state[n] \in {"Pending", "Running"}
            THEN "Cancelled"
          ELSE agent_state[n]]
  /\ pipeline' = [pipeline EXCEPT !.phase = "crashed"]
  /\ UNCHANGED <<session_events, llm_request, executions, pipelineFrame>>

\* The ParallelAgent is done when every sub-agent is.
JoinReadyFirstCompleted ==
  \E i \in DOMAIN parallel_group : agent_state[parallel_group[i]] = "Succeeded"

JoinReady ==
  \A i \in DOMAIN parallel_group : agent_state[parallel_group[i]] = "Succeeded"

\* The ParallelAgent ends; the SequentialAgent moves to its next sub-agent.
ParallelJoin ==
  /\ agent_state[ParallelGroupName] = "Running"
  /\ JoinReady
  /\ agent_state' = [agent_state EXCEPT ![ParallelGroupName] = "Succeeded"]
  /\ pipeline' = [pipeline EXCEPT !.idx = @ + 1]
  /\ UNCHANGED <<session_events, llm_request, executions, pipelineFrame>>

\* The second sub-agent of the sequence starts.
SynthesizerStart ==
  /\ pipeline.phase = "running"
  /\ parallel_processing_system[pipeline.idx] = ResultsSynthesizerName
  /\ agent_state[ResultsSynthesizerName] = "Pending"
  /\ agent_state' = [agent_state EXCEPT ![ResultsSynthesizerName] = "Running"]
  /\ executions' = [executions EXCEPT ![ResultsSynthesizerName] = @ + 1]
  /\ UNCHANGED <<pipeline, session_events, llm_request, pipelineFrame>>

\* The last sub-agent gives its final response; the sequence is over.
SynthesizerFinish ==
  /\ agent_state[ResultsSynthesizerName] = "Running"
  /\ llm_request[ResultsSynthesizerName].sent
  /\ session_events' =
       Append(session_events,
              [author |-> ResultsSynthesizerName, final |-> TRUE])
  /\ agent_state' = [agent_state EXCEPT ![ResultsSynthesizerName] = "Succeeded",
                                        ![ParallelSystemName] = "Succeeded"]
  /\ pipeline' = [pipeline EXCEPT !.phase = "finished"]
  /\ UNCHANGED <<llm_request, executions, pipelineFrame>>

\* The last sub-agent raises; the invocation ends with the exception.
SynthesizerFail ==
  /\ agent_state[ResultsSynthesizerName] = "Running"
  /\ agent_state' = [agent_state EXCEPT ![ResultsSynthesizerName] = "Failed",
                                        ![ParallelSystemName] = "Failed"]
  /\ pipeline' = [pipeline EXCEPT !.phase = "crashed"]
  /\ UNCHANGED <<session_events, llm_request, executions, pipelineFrame>>

\* The next request, on a new session.
NewPipelineRequest ==
  /\ pipeline.phase \in {"finished", "crashed"}
  /\ pipeline' = [phase |-> "new", idx |-> 0]
  /\ agent_state' = [n \in PipelineNodes |-> "Pending"]
  /\ session_events' = <<UserEvent>>
  /\ llm_request' = [a \in LlmAgents |-> NoLlmRequest]
  /\ executions' = [n \in PipelineNodes |-> 0]
  /\ UNCHANGED pipelineFrame

NextPipeline ==
  \/ SequentialEnter
  \/ ParallelEnter
  \/ \E c \in Collectors : CollectorStart(c)
  \/ \E a \in LlmAgents : LlmStep(a)
  \/ \E a \in LlmAgents : LlmToolCall(a)
  \/ \E c \in Collectors : CollectorFinish(c)
  \/ \E c \in Collectors : CollectorFail(c)
  \/ ParallelJoin
  \/ SynthesizerStart
  \/ SynthesizerFinish
  \/ SynthesizerFail
  \/ NewPipelineRequest

SpecPipeline == InitPipeline /\ [][NextPipeline]_vars

\* ------------------------------------- agent3: root_agent (LlmAgent) at work
remoteFrame ==
  <<COOLDOWN_PERIOD_SECONDS, active, gateVars, orchVars, toolVars,
    pipeline, agent_state, session_events, llm_request, executions,
    pluginVars, diagnoseVars>>

\* What the session may hold when the conversation starts.
SeedStates == {EmptyDict, SetItem(EmptyDict, "request_id", "r-1")}

\* A conversation with agent3's root_agent.
InitRemote ==
  /\ now = 0
  /\ COOLDOWN_PERIOD_SECONDS = 1
  /\ session_state \in SeedStates
  /\ store = [n \in GateNodes |-> NoTime]
  /\ granted = [n \in GateNodes |-> -1]
  /\ active = {}
  /\ InitRunLocals
  /\ InitOrchOff
  /\ InitToolsOff
  /\ pipeline = PipelineOff
  /\ agent_state = [n \in PipelineNodes |-> "Pending"]
  /\ session_events = <<>>
  /\ llm_request = [a \in LlmAgents |-> NoLlmRequest]
  /\ executions = [n \in PipelineNodes |-> 0]
  /\ orchestrator = [phase |-> "llm", target |-> ""]
  /\ last_finished = ""
  /\ callback = NoCallback
  /\ InitPluginOff
  /\ InitDiagnoseOff

\* save_last_action_callback(tool, args, tool_context, tool_response):
\* tool_context.state["last_action"] = tool.name; return tool_response
save_last_action_callback(tool, tool_response) ==
  /\ session_state' = SetItem(session_state, "last_action", tool)
  /\ callback' = [called |-> TRUE, tool |-> tool,
                  tool_response |-> tool_response, returned |-> tool_response,
                  state_before |-> session_state]

\* root_agent's model picks a service.  The remote agents are sub_agents of
\* root_agent, so the function it calls is the transfer to the sub-agent;
\* the function returns nothing, the after_tool_callback runs with that
\* function as its tool, and then the remote agent takes over.
TransferToAgent(target) ==
  /\ orchestrator.phase = "llm"
  /\ \E tool \in OrchestratorTools : save_last_action_callback(tool, "None")
  /\ orchestrator' = [phase |-> "remote", target |-> target]
  /\ UNCHANGED <<now, last_finished, remoteFrame>>

\* The remote agent has answered; the next request goes to root_agent.
RemoteAgentFinish ==
  /\ orchestrator.phase = "remote"
  /\ last_finished' = orchestrator.target
  /\ orchestrator' = [phase |-> "llm", target |-> ""]
  /\ UNCHANGED <<now, session_state, callback, remoteFrame>>

\* Time passes during the conversation.
RemoteTick ==
  /\ now < MaxNow
  /\ now' = now + 1
  /\ UNCHANGED <<session_state, orchestrator, last_finished, callback,
                 remoteFrame>>

NextRemote ==
  \/ \E target \in RemoteAgents : TransferToAgent(target)
  \/ RemoteAgentFinish
  \/ RemoteTick

SpecRemote == InitRemote /\ [][NextRemote]_vars

\* ------------------ agent_1 as configured: COOLDOWN_PERIOD_SECONDS = 60
ConfiguredPeriod == 60

\* Invocations of agent_1's root_agent with the period of the source, an
\* empty session and a store that holds no record.
InitConfigured ==
  /\ now = 0
  /\ session_state = EmptyDict
  /\ InitFlowOff
  /\ COOLDOWN_PERIOD_SECONDS = ConfiguredPeriod
  /\ store = [n \in GateNodes |-> NoTime]
  /\ granted = [n \in GateNodes |-> -1]
  /\ active = {"run1"}
  /\ InitRunLocals
  /\ orch = [phase |-> "new", times_looped |-> 0, idx |-> 1]
  /\ node_state = [n \in Nodes |-> "Pending"]
  /\ consulted = [n \in Nodes |-> 0]
  /\ admitted = [n \in Nodes |-> 0]
  /\ starts = [n \in Nodes |-> 0]
  /\ InitToolsOff

SpecConfigured == InitConfigured /\ [][NextOrch]_vars

\* ---------------------------------- cooldown_plugin: CooldownPlugin at work
\* _extract_user_id(request, context)
ExtractUserIdFromSession(request, context) == context.session

extract_user_id(request, context) == DefaultUser

\* What the backend answers to /check/{user_id} when it answers in full:
\* the user is in cooldown while less than the period has passed since the
\* action recorded last.
BackendInCooldown(user_id) ==
  /\ plugin_store[user_id] >= 0
  /\ now - plugin_store[user_id] < PeriodTicks

\* What the backend answers to /remaining/{user_id}: whole seconds left.
BackendRemaining(user_id) ==
  IF BackendInCooldown(user_id)
    THEN (PeriodTicks - (now - plugin_store[user_id]) + TicksPerSecond - 1)
           \div TicksPerSecond
    ELSE 0

\* _is_user_in_cooldown: False without a URL, on any exception (a body that
\* is not JSON included) and on any status but 200; data.get('in_cooldown',
\* False) on a 200 answer.
is_user_in_cooldownFailClosed(url, outcome, reported) ==
  IF url = "None" THEN FALSE
  ELSE IF outcome = "ok" THEN reported
  ELSE IF outcome = "no_field" THEN FALSE
  ELSE TRUE

is_user_in_cooldown(url, outcome, reported) ==
  IF url = "None" THEN FALSE
  ELSE IF outcome = "ok" THEN reported
  ELSE FALSE

\* _get_remaining_cooldown_time: data.get('remaining_seconds', 0) on a 200
\* answer, COOLDOWN_PERIOD_SECONDS in every other case.
get_remaining_cooldown_time(url, outcome, remaining_seconds) ==
  IF url # "None" /\ outcome = "ok" THEN remaining_seconds
  ELSE IF url # "None" /\ outcome = "no_field" THEN 0
  ELSE COOLDOWN_PERIOD_SECONDS

\* Whether an exception of the record request leaves _record_user_action:
\* the request is inside try / except Exception.
RecordRaisesUncaught(outcome) == outcome \in {"ConnectionError", "Timeout"}

RecordRaises(outcome) == FALSE

\* The requests a method sends: none when COOLDOWN_API_URL is not set.
OutcomesOf(url, outcomes) == IF url = "None" THEN {"not_sent"} ELSE outcomes

RecordOutcomes == {"ok", "status_500", "ConnectionError", "Timeout"}

\* Requests handled by one plugin, with or without a configured backend.
InitPlugin ==
  /\ now = 0
  /\ session_state = EmptyDict
  /\ COOLDOWN_PERIOD_SECONDS \in Periods
  /\ store = [n \in GateNodes |-> NoTime]
  /\ granted = [n \in GateNodes |-> -1]
  /\ active = {}
  /\ InitRunLocals
  /\ InitOrchOff
  /\ InitToolsOff
  /\ InitAgentsOff
  /\ InitDiagnoseOff
  /\ COOLDOWN_API_URL \in {"None", "http://backend"}
  /\ plugin_store = [u \in UserIds |-> -1]
  /\ plugin_pc = "idle"
  /\ plugin_call = NoPluginCall
  /\ last_recorder = NoCaller

pluginFrame ==
  <<COOLDOWN_PERIOD_SECONDS, active, gateVars, orchVars, toolVars,
    session_state, pipeline, agent_state, session_events, llm_request,
    executions, orchestrator, last_finished, callback, diagnoseVars>>

\* on_agent_request, lines 118-124: identify the user; without a user id
\* the request is returned as it is.
on_agent_request(agent, session, request) ==
  /\ plugin_pc = "idle"
  /\ LET user_id == extract_user_id(request, [agent |-> agent, session |-> session])
     IN
       /\ plugin_call' =
            [NoPluginCall EXCEPT
               !.agent = agent, !.session = session, !.request = request,
               !.user_id = user_id,
               !.branch = IF user_id = "" THEN "missing_user_id" ELSE "check",
               !.result = IF user_id = ""
                            THEN [kind |-> "request", request |-> request]
                            ELSE [kind |-> "running", request |-> ""]]
       /\ plugin_pc' = IF user_id = "" THEN "done" ELSE "check"
  /\ UNCHANGED <<now, COOLDOWN_API_URL, plugin_store, last_recorder, pluginFrame>>

\* Line 128: _is_user_in_cooldown(user_id)
CooldownCheck ==
  /\ plugin_pc = "check"
  /\ \E outcome \in OutcomesOf(COOLDOWN_API_URL, BackendOutcomes) :
       LET reported == BackendInCooldown(plugin_call.user_id)
           in_cooldown == is_user_in_cooldown(COOLDOWN_API_URL, outcome, reported)
       IN
         /\ plugin_call' =
              [plugin_call EXCEPT
                 !.check = outcome,
                 !.reported = outcome = "ok" /\ reported,
                 !.in_cooldown = in_cooldown,
                 !.branch = IF in_cooldown THEN "violation" ELSE "record"]
         /\ plugin_pc' = IF in_cooldown THEN "violation" ELSE "record"
  /\ UNCHANGED <<now, COOLDOWN_API_URL, plugin_store, last_recorder, pluginFrame>>

\* Where on_agent_request goes after the violation handler: return None.
AfterViolationFallThrough == "record"

AfterViolation == "done"

\* Lines 131-132: _handle_cooldown_violation asks for the remaining time and
\* prints the message; the request is blocked.
CooldownViolation ==
  /\ plugin_pc = "violation"
  /\ \E outcome \in OutcomesOf(COOLDOWN_API_URL, BackendOutcomes) :
       plugin_call' =
         [plugin_call EXCEPT
            !.remaining = outcome,
            !.remaining_time =
               get_remaining_cooldown_time(COOLDOWN_API_URL, outcome,
                                           BackendRemaining(plugin_call.user_id)),
            !.result = [kind |-> "None", request |-> ""]]
  /\ plugin_pc' = AfterViolation
  /\ UNCHANGED <<now, COOLDOWN_API_URL, plugin_store, last_recorder, pluginFrame>>

\* Lines 136-140: _record_user_action, then the request is returned.  The
\* backend records the action when it answers 200; after a timeout it may
\* or may not have recorded it.
RecordAction ==
  /\ plugin_pc = "record"
  /\ \E outcome \in OutcomesOf(COOLDOWN_API_URL, RecordOutcomes), applied \in BOOLEAN :
       /\ outcome = "ok" => applied
       /\ outcome \in {"not_sent", "status_500", "ConnectionError"} => ~applied
       /\ plugin_store' =
            IF applied THEN [plugin_store EXCEPT ![plugin_call.user_id] = now]
            ELSE plugin_store
       /\ last_recorder' =
            IF applied
              THEN [agent |-> plugin_call.agent, session |-> plugin_call.session]
              ELSE last_recorder
       /\ plugin_call' =
            [plugin_call EXCEPT
               !.record = outcome,
               !.recorded = applied,
               !.result = IF RecordRaises(outcome)
                            THEN [kind |-> "raised", request |-> ""]
                            ELSE [kind |-> "request", request |-> plugin_call.request]]
  /\ plugin_pc' = "done"
  /\ UNCHANGED <<now, COOLDOWN_API_URL, pluginFrame>>

\* The caller has taken the result.
PluginReturn ==
  /\ plugin_pc = "done"
  /\ plugin_pc' = "idle"
  /\ plugin_call' = NoPluginCall
  /\ UNCHANGED <<now, COOLDOWN_API_URL, plugin_store, last_recorder, pluginFrame>>

NextPlugin ==
  \/ \E agent \in PluginAgents, session \in Sessions, request \in Requests :
       on_agent_request(agent, session, request)
  \/ CooldownCheck
  \/ CooldownViolation
  \/ RecordAction
  \/ PluginReturn
  \/ Tick

SpecPlugin == InitPlugin /\ [][NextPlugin]_vars

\* ------------------------------- diagnose/agent.py: the global root_agent
\* root_agent is 0 for None and otherwise the number of the run of
\* get_agent_async that built it; build_log lists the runs of
\* get_agent_async, each with its caller and whether it returned an agent.
MaxBuilds == 4

\* What one run of get_agent_async ends with: the LlmAgent it built, or an
\* exception of the toolbox client, the toolsets or the agent constructors.
BuildOutcomes == {"agent", "Exception", "RuntimeError"}

\* initialize: "if root_agent is None"
NeedsBuildAlways(ra) == TRUE

NeedsBuild(ra) == ra = 0

\* The module-level try: except RuntimeError, then except Exception.
CaughtOnlyRuntimeError(exc) == exc = "RuntimeError"

Caught(exc) == exc \in {"RuntimeError", "Exception"}

\* Whether "await get_agent_async()" hands the event loop to another task:
\* get_agent_async contains no await, so the call runs to its return.
GetAgentAsyncSuspendsAtAwait == TRUE

GetAgentAsyncSuspends == FALSE

\* get_agent()
get_agentReturnsUnset(ra) == [outcome |-> "returned", value |-> ra]

get_agent(ra) ==
  IF ra = 0 THEN [outcome |-> "RuntimeError", value |-> 0]
  ELSE [outcome |-> "returned", value |-> ra]

\* is_system_ready()
is_system_ready(ra) == ra # 0

SuccessfulBuilds == {i \in 1..Len(build_log) : build_log[i].ok}

BuildsBy(callers) == {i \in 1..Len(build_log) : build_log[i].by \in callers}

\* The module is imported: root_agent = None, nothing has run yet.
InitDiagnose ==
  /\ now = 0
  /\ COOLDOWN_PERIOD_SECONDS = 1
  /\ session_state = EmptyDict
  /\ store = [n \in GateNodes |-> NoTime]
  /\ granted = [n \in GateNodes |-> -1]
  /\ active = {}
  /\ InitRunLocals
  /\ InitOrchOff
  /\ InitToolsOff
  /\ InitAgentsOff
  /\ InitPluginOff
  /\ root_agent = 0
  /\ build_log = <<>>
  /\ loader = "first_startup"
  /\ task_pc = [t \in Tasks |-> "idle"]
  /\ task_result = [t \in Tasks |-> 0]
  /\ loop_current = ""
  /\ helper_result = NoHelperCall

diagnoseFrame ==
  <<now, COOLDOWN_PERIOD_SECONDS, active, gateVars, orchVars, toolVars,
    session_state, pipeline, agent_state, session_events, llm_request,
    executions, orchestrator, last_finished, callback, pluginVars>>

\* A module startup section: asyncio.run(initialize()) inside try / except.
\* The run has the event loop to itself, so initialize goes from its test of
\* root_agent to the assignment in one step.
ModuleStartup(phase, next_phase) ==
  /\ loader = phase
  /\ IF NeedsBuild(root_agent)
       THEN \E outcome \in BuildOutcomes :
              /\ build_log' = Append(build_log, [by |-> phase, ok |-> outcome = "agent"])
              /\ root_agent' = IF outcome = "agent" THEN Len(build_log) + 1 ELSE root_agent
              /\ loader' = IF outcome = "agent" \/ Caught(outcome)
                             THEN next_phase ELSE "import_failed"
       ELSE /\ loader' = next_phase
            /\ UNCHANGED <<build_log, root_agent>>
  /\ UNCHANGED <<task_pc, task_result, loop_current, helper_result, diagnoseFrame>>

\* A task gets the event loop and starts initialize(): the test of root_agent.
InitializeEnter(t) ==
  /\ loader = "loaded"
  /\ loop_current = ""
  /\ task_pc[t] = "idle"
  /\ IF NeedsBuild(root_agent)
       THEN /\ Len(build_log) < MaxBuilds
            /\ task_pc' = [task_pc EXCEPT ![t] = "building"]
            /\ loop_current' = t
       ELSE /\ task_pc' = [task_pc EXCEPT ![t] = "done_already"]
            /\ loop_current' = ""
  /\ UNCHANGED <<root_agent, build_log, loader, task_result, helper_result, diagnoseFrame>>

\* The task runs get_agent_async.  An exception leaves initialize(), and
\* with it the task.
GetAgentAsync(t) ==
  /\ task_pc[t] = "building"
  /\ loop_current = t
  /\ \E outcome \in BuildOutcomes :
       /\ build_log' = Append(build_log, [by |-> t, ok |-> outcome = "agent"])
       /\ IF outcome = "agent"
            THEN /\ task_pc' = [task_pc EXCEPT ![t] = "built"]
                 /\ task_result' = [task_result EXCEPT ![t] = Len(build_log) + 1]
                 /\ loop_current' = IF GetAgentAsyncSuspends THEN "" ELSE t
            ELSE /\ task_pc' = [task_pc EXCEPT ![t] = "done_raised"]
                 /\ task_result' = task_result
                 /\ loop_current' = ""
  /\ UNCHANGED <<root_agent, loader, helper_result, diagnoseFrame>>

\* "root_agent = <the awaited value>", then the log line; initialize() ends.
AssignRootAgent(t) ==
  /\ task_pc[t] = "built"
  /\ loop_current \in {"", t}
  /\ root_agent' = task_result[t]
  /\ task_pc' = [task_pc EXCEPT ![t] = "done_built"]
  /\ loop_current' = ""
  /\ UNCHANGED <<build_log, loader, task_result, helper_result, diagnoseFrame>>

\* The task is over; its caller may call initialize() again.
TaskEnd(t) ==
  /\ task_pc[t] \in {"done_already", "done_built", "done_raised"}
  /\ task_pc' = [task_pc EXCEPT ![t] = "idle"]
  /\ task_result' = [task_result EXCEPT ![t] = 0]
  /\ UNCHANGED <<root_agent, build_log, loader, loop_current, helper_result, diagnoseFrame>>

\* A call of get_agent() of the loaded module.
GetAgent ==
  /\ loader = "loaded"
  /\ loop_current = ""
  /\ LET r == get_agent(root_agent)
     IN helper_result' =
          [called |-> "get_agent", root_agent |-> root_agent,
           outcome |-> r.outcome, value |-> r.value, ready |-> FALSE]
  /\ UNCHANGED <<root_agent, build_log, loader, task_pc, task_result, loop_current, diagnoseFrame>>

\* A call of is_system_ready() of the loaded module.
IsSystemReady ==
  /\ loader = "loaded"
  /\ loop_current = ""
  /\ helper_result' =
       [called |-> "is_system_ready", root_agent |-> root_agent,
        outcome |-> "returned", value |-> 0, ready |-> is_system_ready(root_agent)]
  /\ UNCHANGED <<root_agent, build_log, loader, task_pc, task_result, loop_current, diagnoseFrame>>

NextDiagnose ==
  \/ ModuleStartup("first_startup", "second_startup")
  \/ ModuleStartup("second_startup", "loaded")
  \/ \E t \in Tasks : InitializeEnter(t)
  \/ \E t \in Tasks : GetAgentAsync(t)
  \/ \E t \in Tasks : AssignRootAgent(t)
  \/ \E t \in Tasks : TaskEnd(t)
  \/ GetAgent
  \/ IsSystemReady

SpecDiagnose == InitDiagnose /\ [][NextDiagnose]_vars

Next ==
  \/ \E r \in Runs, n \in GateNodes : Call(r, n)
  \/ \E r \in Runs : Evaluate(r)
  \/ \E r \in Runs : Stamp(r)
  \/ \E r \in Runs : Post(r)
  \/ \E r \in Runs : Return(r)
  \/ Tick

Spec == Init /\ [][Next]_vars

SpecSeq == InitSeq /\ [][Next]_vars

SpecSeeded == InitSeeded /\ [][Next]_vars

\* A call of check_cool_down that is under way keeps executing: each step
\* of its own that is possible is eventually taken.  Nothing is assumed of
\* the store or of the callers.
GateFairness ==
  \A r \in Runs : WF_vars(Evaluate(r)) /\ WF_vars(Stamp(r)) /\ WF_vars(Post(r))

SpecSeqFair == InitSeq /\ [][Next]_vars /\ GateFairness

TypeOK ==
  /\ now \in Time
  /\ store \in [GateNodes -> TimeStrings]
  /\ pc \in [Runs -> {"idle", "get", "eval", "stamp", "post", "posting", "done"}]

\* ====================================================================
\* Properties of the admission gate
\* ====================================================================

\* The read succeeded and the gate decided to let the agent run.
DecidedAllow(r) ==
  /\ get_outcome[r] = "ok"
  /\ \/ pc[r] \in {"stamp", "post"}
     \/ pc[r] = "done" /\ ret[r].kind = "None"

\* The gate returned a denial.
Denied(r) == pc[r] = "done" /\ ret[r].kind = "Content"

\* C1: with the store reachable and no prior record, the first check of a
\* node allows and records a timestamp; a later check is denied while less
\* than the period has elapsed since the recorded timestamp, and allowed
\* again once the elapsed time is at least the period (boundary included).
C1_CooldownWindow ==
  \A r \in active :
    LET n == agent_name[r]
        elapsed == checked_at[r] - granted[n]
    IN
      /\ (pc[r] \in {"stamp", "post"} /\ get_outcome[r] = "ok") =>
            (granted[n] < 0 \/ elapsed >= PeriodTicks)
      /\ Denied(r) =>
            (granted[n] >= 0 /\ elapsed >= 0 /\ elapsed < PeriodTicks)
      /\ (pc[r] = "done" /\ post_outcome[r] = "ok") =>
            /\ ret[r] = ReturnNone
            /\ store[n] = current_time_iso[r]
            /\ granted[n] = current_time_iso[r].t
            /\ current_time_iso[r].kind = "aware"
            /\ checked_at[r] <= granted[n]
            /\ granted[n] <= now

\* A check made exactly one period after the recorded grant is allowed.
C1_Witness ==
  \E r \in active :
    /\ pc[r] = "post"
    /\ get_outcome[r] = "ok"
    /\ granted[agent_name[r]] >= 0
    /\ checked_at[r] - granted[agent_name[r]] = PeriodTicks

\* C2: when the read fails (store unreachable, or an error status), the gate
\* returns None whatever the store holds for the node, every time, and sends
\* no timestamp write.
C2_FailOpen ==
  \A r \in active :
    (pc[r] = "done" /\ get_outcome[r] \in {"ConnectionError", "HTTPError"}) =>
      /\ ret[r] = ReturnNone
      /\ post_outcome[r] = "none"
      /\ current_time_iso[r] = NoTime

\* The read failed with an error status while the store holds a record that
\* would have denied the agent.
C2_Witness ==
  \E r \in active :
    /\ pc[r] = "done"
    /\ get_outcome[r] = "HTTPError"
    /\ ret[r] = ReturnNone
    /\ store[agent_name[r]].kind = "aware"
    /\ now - store[agent_name[r]].t < PeriodTicks

\* C3: two concurrent runs that consult the gate for the same node never
\* both pass the check within one cooldown period.
C3_NoDoubleAdmission ==
  \A r1 \in active, r2 \in active :
    (/\ r1 # r2
     /\ DecidedAllow(r1)
     /\ DecidedAllow(r2)
     /\ agent_name[r1] = agent_name[r2]
     /\ checked_at[r1] <= checked_at[r2])
      => checked_at[r2] - checked_at[r1] >= PeriodTicks

\* C4: whatever the store replies to the read, the gate returns None or a
\* denial message and never lets an exception out.
C4_NeverRaises ==
  \A r \in active : ret[r].kind \in {"running", "None", "Content"}

\* C5: once the gate has decided to allow, a failed timestamp write does not
\* turn the decision into a denial: the call still returns None.
C5_WriteFailureKeepsAllow ==
  \A r \in active :
    (pc[r] = "done" /\ post_outcome[r] \in {"ConnectionError", "HTTPError"}) =>
      ret[r] = ReturnNone

\* The write failed on a connection error after the gate had decided to allow
\* on an expired record.
C5_Witness ==
  \E r \in active :
    /\ pc[r] = "done"
    /\ post_outcome[r] = "ConnectionError"
    /\ Truthy(last_used_str[r])
    /\ store[agent_name[r]] = last_used_str[r]

\* Two denials of the same node on the same stored record: the later one
\* does not report a longer wait.
WaitNeverIncreases ==
  \A r1 \in active, r2 \in active :
    (/\ Denied(r1)
     /\ Denied(r2)
     /\ agent_name[r1] = agent_name[r2]
     /\ last_used_str[r1] = last_used_str[r2]
     /\ checked_at[r1] <= checked_at[r2])
      => ret[r1].seconds >= ret[r2].seconds

\* C6 (as stated): a denial reports exactly P - (now - last_used_timestamp)
\* seconds, and over successive denials on an unchanged record the reported
\* wait never increases.
C6_ExactWait ==
  /\ \A r \in active :
       Denied(r) =>
         ret[r].seconds * TicksPerSecond =
           PeriodTicks - (checked_at[r] - last_used_str[r].t)
  /\ WaitNeverIncreases

\* C6 (amended): a denial reports P - (now - last_used_timestamp) truncated
\* to whole seconds, w <= P - elapsed < w + 1, and over successive denials
\* on an unchanged record the reported wait never increases.
C6_TruncatedWait ==
  /\ \A r \in active :
       Denied(r) =>
         LET rest == PeriodTicks - (checked_at[r] - last_used_str[r].t)
             w == ret[r].seconds
         IN /\ w * TicksPerSecond <= rest
            /\ rest < (w + 1) * TicksPerSecond
            /\ ret[r].agent = agent_name[r]
  /\ WaitNeverIncreases

\* Two denials on the same record at different times, the later reporting a
\* strictly shorter wait, after an elapsed time that is not a whole second.
C6_Witness ==
  \E r1 \in active, r2 \in active :
    /\ Denied(r1)
    /\ Denied(r2)
    /\ agent_name[r1] = agent_name[r2]
    /\ last_used_str[r1] = last_used_str[r2]
    /\ checked_at[r1] < checked_at[r2]
    /\ ret[r1].seconds > ret[r2].seconds
    /\ (checked_at[r2] - last_used_str[r2].t) % TicksPerSecond # 0

\* ====================================================================
\* Properties of the orchestration
\* ====================================================================

\* C7: no node, root or child, starts executing unless the gate was consulted
\* just before with that node's own name and returned Allow; a node the gate
\* denied never runs.
C7_EveryNodeGated ==
  \A n \in Nodes :
    /\ starts[n] <= admitted[n]
    /\ admitted[n] <= consulted[n]
    /\ node_state[n] \in {"Running", "Succeeded", "Failed"} => consulted[n] > 0
    /\ node_state[n] = "Denied" => starts[n] = 0

\* C8: in a run of the loop that completes its max_iterations = 2 passes, the
\* gate is consulted exactly twice for each node of the child sequence, once
\* per iteration.
C8_GatePerIteration ==
  (orch.phase = "finished" /\ node_state[RootAgentName] = "Succeeded") =>
    \A i \in DOMAIN sub_agents : consulted[sub_agents[i]] = max_iterations

\* ====================================================================
\* Properties of the tool servers
\* ====================================================================

\* hay contains needle as a contiguous run of pieces
Contains(hay, needle) ==
  \E i \in 0..(Len(hay) - Len(needle)) :
    SubSeq(hay, i + 1, i + Len(needle)) = needle

\* text is the JSON encoding of an object with the single key "error"
IsErrorJson(text) ==
  /\ Len(text) >= Len(ErrorOpen) + 3
  /\ SubSeq(text, 1, Len(ErrorOpen) + 1) = ErrorOpen \o <<Quote>>
  /\ SubSeq(text, Len(text) - 1, Len(text)) = <<Quote, "}">>

\* json.loads(text)["error"]
ErrorMessageOf(text) ==
  JsonUnescape(SubSeq(text, Len(ErrorOpen) + 2, Len(text) - 2))

\* text is the JSON encoding of a string
IsStringJson(text) ==
  /\ Len(text) >= 2
  /\ text[1] = Quote
  /\ text[Len(text)] = Quote

\* json.loads(text) for the encoding of a string
StringOf(text) == JsonUnescape(SubSeq(text, 2, Len(text) - 1))

Answered == tool_request # NoRequest

\* C9: call_tool with a name that is not in the registry does not raise; it
\* returns an error result whose message contains the requested name and the
\* words "not implemented", and no registered tool is executed.
C9_UnknownToolIsData ==
  (Answered /\ Lookup(available_tools, tool_request.name) = 0) =>
    /\ tool_reply.kind = "TextContent"
    /\ IsErrorJson(tool_reply.text)
    /\ Contains(ErrorMessageOf(tool_reply.text), tool_request.name)
    /\ Contains(ErrorMessageOf(tool_reply.text), <<"not implemented">>)
    /\ tool_ran = NoTool

\* An unregistered name that holds a double quote has been asked for.
C9_Witness ==
  /\ Answered
  /\ Lookup(available_tools, tool_request.name) = 0
  /\ Contains(tool_request.name, <<Quote>>)
  /\ tool_reply.kind = "TextContent"

\* C10: call_tool with a registered name does not raise; a failure of the
\* capability or of the serialisation of its response becomes an error result
\* carrying the failure message, and a success carries the response.
C10_RegisteredToolNeverRaises ==
  (Answered /\ Lookup(available_tools, tool_request.name) # 0) =>
    LET cap == tool_ran.outcome
        text == tool_reply.text
    IN
      /\ tool_reply.kind = "TextContent"
      /\ tool_ran.ran
      /\ tool_ran.name = tool_request.name
      /\ cap.raises =>
           /\ IsErrorJson(text)
           /\ Contains(ErrorMessageOf(text), cap.text)
           /\ Contains(ErrorMessageOf(text), tool_request.name)
      /\ (~cap.raises /\ ~cap.serializable) =>
           /\ IsErrorJson(text)
           /\ Contains(ErrorMessageOf(text), NotSerializableMessage)
      /\ (~cap.raises /\ cap.serializable) =>
           /\ IsStringJson(text)
           /\ StringOf(text) = cap.text

\* A registered tool returned a response json.dumps could not encode.
C10_Witness ==
  /\ Answered
  /\ Lookup(available_tools, tool_request.name) # 0
  /\ tool_ran.ran
  /\ ~tool_ran.outcome.raises
  /\ ~tool_ran.outcome.serializable
  /\ tool_reply.kind = "TextContent"

\* ====================================================================
\* Properties of agent4's pipeline (SequentialAgent over a ParallelAgent)
\* ====================================================================

\* Position of an agent's final response in the session, 0 if there is none.
FinalEventOf(a) ==
  IF \E i \in DOMAIN session_events :
       session_events[i].author = a /\ session_events[i].final
    THEN CHOOSE i \in DOMAIN session_events :
           session_events[i].author = a /\ session_events[i].final
    ELSE 0

\* C12: results_synthesizer, the step after the ParallelAgent in the
\* sequence, has not started as long as a sub-agent of the ParallelAgent
\* has not ended (succeeded or failed).
C12_JoinBarrier ==
  agent_state[ResultsSynthesizerName] # "Pending" =>
    \A c \in Collectors : agent_state[c] \in {"Succeeded", "Failed"}

\* results_synthesizer is at work, and the second collector ended first.
C12_Witness ==
  /\ agent_state[ResultsSynthesizerName] = "Running"
  /\ FinalEventOf(DataCollector2Name) # 0
  /\ FinalEventOf(DataCollector2Name) < FinalEventOf(DataCollector1Name)

\* The invocation of agent4's root_agent is over.
PipelineOver == pipeline.phase \in {"finished", "crashed"}

\* C13: when a sub-agent of the SequentialAgent fails (here the
\* ParallelAgent, because a collector raised), the sub-agent after it is
\* still executed, and the session records the failure.
C13_SequenceContinuesAfterFailure ==
  (PipelineOver /\ agent_state[ParallelGroupName] = "Failed") =>
    /\ executions[ResultsSynthesizerName] = 1
    /\ agent_state[ResultsSynthesizerName] \in {"Succeeded", "Failed"}
    /\ \E i \in DOMAIN session_events :
         session_events[i].author = ParallelGroupName

\* C14: the SequentialAgent runs its sub-agents in the declared order, one
\* at a time: a sub-agent has not started before the one declared before it
\* has ended, none is started twice, and when the invocation is over every
\* sub-agent was started exactly once.
C14_SequentialOrderExactlyOnce ==
  /\ \A i \in DOMAIN parallel_processing_system :
       executions[parallel_processing_system[i]] <= 1
  /\ \A i \in DOMAIN parallel_processing_system, j \in DOMAIN parallel_processing_system :
       (i < j /\ executions[parallel_processing_system[j]] > 0) =>
         agent_state[parallel_processing_system[i]] \in {"Succeeded", "Failed"}
  /\ PipelineOver =>
       \A i \in DOMAIN parallel_processing_system :
         executions[parallel_processing_system[i]] = 1

\* ====================================================================
\* More properties of the gate, the orchestration and the tool servers
\* ====================================================================

\* The record the store holds for node n says n is inside its cooldown
\* period: a check of n made now would be answered with a denial.
WouldDeny(n) ==
  /\ n \in DOMAIN store
  /\ store[n].kind = "aware"
  /\ InCooldown(now - store[n].t)

\* C15: a sub-agent the gate denies is not run: no sub-agent of the root
\* agent is executing while the store's record for it is inside the
\* cooldown period (its output is the denial and the next sub-agent runs).
C15_DeniedChildIsNotRun ==
  \A i \in DOMAIN sub_agents :
    WouldDeny(sub_agents[i]) => node_state[sub_agents[i]] # "Running"

\* C16: the store holds one record per node name, and the timestamp of a
\* node's record never decreases, whatever the interleaving of the checks
\* of one or several runs.
C16_TimestampNeverDecreases ==
  [][\A n \in DOMAIN store :
       /\ DOMAIN store' = DOMAIN store
       /\ store[n].kind = "aware" =>
            store'[n].kind = "aware" /\ store'[n].t >= store[n].t]_vars

\* C18: a check whose read the store never answers still returns, and
\* returns None (allow); a check whose write the store never answers still
\* returns.
C18_StoreAccessIsBounded ==
  /\ \A r \in Runs : (pc[r] = "get") ~> (pc[r] = "done" /\ ret[r].kind = "None")
  /\ \A r \in Runs : (pc[r] = "posting") ~> (pc[r] = "done")

\* C19: the handlers of a tool server leave the registry as it was built,
\* and what list_tools returns is one descriptor per registered tool, in
\* the registry's order.
C19_RegistryUnchanged ==
  /\ available_tools = RegistryOf(server)
  /\ list_reply # <<>> =>
       /\ Len(list_reply) = Len(RegistryOf(server))
       /\ \A i \in DOMAIN list_reply :
            list_reply[i].name = RegistryOf(server)[i]
       /\ \A i \in DOMAIN list_reply, j \in DOMAIN list_reply :
            list_reply[i].name = list_reply[j].name => i = j

\* list_tools has answered after every registered tool was executed and an
\* unknown name was asked for.
C19_Witness ==
  /\ list_reply # <<>>
  /\ \A i \in DOMAIN tool_runs : tool_runs[i] > 0
  /\ tool_request # NoRequest
  /\ Lookup(RegistryOf(server), tool_request.name) = 0

\* C17: with the period of 60 seconds, an empty session and no record in the
\* store: the first check of the node allows, the node executes and the
\* session then holds last_action = the node's name; a check of the same
\* node made less than 60 seconds after the grant is denied, with a wait of
\* about 60 seconds.
C17_EndToEnd ==
  /\ (pc[OrchRun] = "done" /\ get_outcome[OrchRun] = "ok"
        /\ ~Truthy(last_used_str[OrchRun])) => ret[OrchRun].kind = "None"
  /\ node_state[RootAgentName] = "Succeeded" =>
       /\ "last_action" \in DOMAIN session_state
       /\ session_state["last_action"] = RootAgentName
  /\ (pc[OrchRun] = "done" /\ get_outcome[OrchRun] = "ok"
        /\ last_used_str[OrchRun].kind = "aware"
        /\ checked_at[OrchRun] - last_used_str[OrchRun].t < PeriodTicks) =>
       /\ ret[OrchRun].kind = "Content"
       /\ ret[OrchRun].seconds <= ConfiguredPeriod
       /\ ret[OrchRun].seconds >= ConfiguredPeriod - (MaxNow \div TicksPerSecond) - 1

\* C20: after remote agents have executed, state["last_action"] is the name
\* of the remote agent that finished last; the callback changes no other
\* key of the state and returns the response it was given.
C20_LastActionIsLastRemoteAgent ==
  /\ last_finished # "" =>
       /\ "last_action" \in DOMAIN session_state
       /\ session_state["last_action"] = last_finished
  /\ callback.called =>
       /\ callback.returned = callback.tool_response
       /\ \A k \in DOMAIN callback.state_before \ {"last_action"} :
            k \in DOMAIN session_state /\ session_state[k] = callback.state_before[k]
       /\ DOMAIN session_state = DOMAIN callback.state_before \cup {"last_action"}

\* ====================================================================
\* Properties of single invocations of the gate
\* ====================================================================

\* C21: one invocation of check_cool_down reads once and writes at most
\* once; the write is sent only after a read that led to allow; a denial is
\* returned with no write sent, and the only steps that change the store are
\* the writes of an allowing invocation, which change the record of the
\* checked node and no other.
C21_DenialLeavesStoreAlone ==
  /\ [](\A r \in active :
          /\ post_outcome[r] # "none" => get_outcome[r] = "ok"
          /\ ret[r].kind = "Content" =>
               /\ pc[r] = "done"
               /\ get_outcome[r] = "ok"
               /\ post_outcome[r] = "none")
  /\ [][store' # store =>
          \E r \in active :
            /\ pc[r] = "post"
            /\ ret[r].kind = "running"
            /\ get_outcome[r] = "ok"
            /\ ~Truthy(last_used_str[r]) \/ ~InCooldown(time_since_last_use[r])
            /\ \A n \in DOMAIN store :
                 n # agent_name[r] => store'[n] = store[n]]_vars

\* A denial has been returned: the record read is still the stored one and
\* no write was sent.
C21_Witness ==
  \E r \in active :
    /\ Denied(r)
    /\ post_outcome[r] = "none"
    /\ store[agent_name[r]] = last_used_str[r]
    /\ store[agent_name[r]].kind = "aware"

\* C27: a denial issued with 0 <= elapsed < P reports a whole number of
\* seconds w with 0 <= w <= P and w <= P - elapsed < w + 1: the remainder
\* is cut off, so a denial in the last second of the period reports 0.
C27_WaitIsTruncated ==
  \A r \in active :
    (Denied(r) /\ time_since_last_use[r] >= 0
       /\ time_since_last_use[r] < PeriodTicks) =>
      LET w == ret[r].seconds IN
        /\ w \in 0..COOLDOWN_PERIOD_SECONDS
        /\ w * TicksPerSecond <= PeriodTicks - time_since_last_use[r]
        /\ PeriodTicks - time_since_last_use[r] < (w + 1) * TicksPerSecond
        /\ (PeriodTicks - time_since_last_use[r] < TicksPerSecond => w = 0)

\* A denial in the last second of the period, reporting a wait of 0.
C27_Witness ==
  \E r \in active :
    /\ Denied(r)
    /\ time_since_last_use[r] >= 0
    /\ PeriodTicks - time_since_last_use[r] > 0
    /\ PeriodTicks - time_since_last_use[r] < TicksPerSecond
    /\ ret[r].seconds = 0
\* ------------------------------------------------ cooldown_plugin claims
LetThrough ==
  /\ plugin_call.result.kind = "request"
  /\ plugin_call.result.request = plugin_call.request

Blocked == plugin_call.result.kind = "None"

\* C22 as stated: on_agent_request returns None exactly when the store
\* reports the user in cooldown and the original request otherwise, and the
\* action is recorded in the store if and only if the request is let through
\* with a user id.
C22_RecordedIffLetThrough ==
  plugin_pc = "done" =>
    /\ Blocked <=> plugin_call.reported
    /\ ~Blocked => LetThrough
    /\ plugin_call.recorded <=> (LetThrough /\ plugin_call.user_id # "")

\* C22 amended: on_agent_request returns None exactly when the store reports
\* the user in cooldown and the original request otherwise;
\* _record_user_action is called if and only if the request is let through
\* with a user id; the store records an action only for such a request,
\* under that request's user id and only when COOLDOWN_API_URL is set, and
\* a blocked request leaves the store unchanged.
C22_RecordAttemptedIffLetThrough ==
  /\ [](plugin_pc = "done" =>
          /\ Blocked <=> plugin_call.reported
          /\ ~Blocked => LetThrough
          /\ plugin_call.record # "none" <=> (LetThrough /\ plugin_call.user_id # "")
          /\ plugin_call.recorded => (LetThrough /\ COOLDOWN_API_URL # "None")
          /\ Blocked => (plugin_call.record = "none" /\ ~plugin_call.recorded))
  /\ [][plugin_store' # plugin_store =>
          /\ plugin_pc = "record"
          /\ COOLDOWN_API_URL # "None"
          /\ ~plugin_call.in_cooldown
          /\ plugin_call'.result = [kind |-> "request", request |-> plugin_call.request]
          /\ \A u \in UserIds \ {plugin_call.user_id} :
               plugin_store'[u] = plugin_store[u]]_vars

\* A request blocked inside the cooldown that an earlier request started.
C22_Witness ==
  /\ plugin_pc = "done"
  /\ Blocked
  /\ plugin_call.reported
  /\ plugin_store[plugin_call.user_id] >= 0
  /\ now > plugin_store[plugin_call.user_id]

\* The check did not get an answer it could use: no URL, an exception
\* (a timeout or an unreadable body included) or a status other than 200.
CheckFailed ==
  plugin_call.check \in {"not_sent", "status_500", "ConnectionError", "Timeout", "bad_json"}

\* C23: when the cooldown API URL is not configured, the check request
\* raises or times out, or the API answers with a non-200 status,
\* _is_user_in_cooldown returns False and on_agent_request lets the request
\* through, whatever the user's real cooldown state is.
C23_FailsOpen ==
  CheckFailed =>
    /\ ~plugin_call.in_cooldown
    /\ plugin_pc \in {"record", "done"}
    /\ plugin_call.remaining = "none"
    /\ plugin_pc = "done" => LetThrough

\* A request let through on a failed check while the user is in cooldown.
C23_Witness ==
  /\ plugin_pc = "done"
  /\ plugin_call.check \in {"status_500", "Timeout"}
  /\ BackendInCooldown(plugin_call.user_id)
  /\ ~plugin_call.recorded
  /\ LetThrough

RequestFailures == {"status_500", "ConnectionError", "Timeout", "bad_json"}

\* C24: on_agent_request never raises, whatever the check, record and
\* remaining-time requests do; a failed record of the action does not block
\* the request; when the remaining time cannot be obtained the violation
\* handler uses the full cooldown period as the remaining time.
C24_NeverRaises ==
  /\ plugin_call.result.kind \in {"running", "request", "None"}
  /\ plugin_pc = "done" =>
       /\ plugin_call.result.kind # "running"
       /\ plugin_call.record \in RequestFailures => LetThrough
       /\ plugin_call.remaining \in RequestFailures =>
            /\ Blocked
            /\ plugin_call.remaining_time = COOLDOWN_PERIOD_SECONDS

\* A blocked request whose remaining-time request timed out, at a moment
\* when less than the full period was left.
C24_Witness ==
  /\ plugin_pc = "done"
  /\ Blocked
  /\ plugin_call.remaining = "Timeout"
  /\ plugin_call.remaining_time = COOLDOWN_PERIOD_SECONDS
  /\ BackendRemaining(plugin_call.user_id) < COOLDOWN_PERIOD_SECONDS

\* C28: every request is keyed on the user id "default_user", whatever the
\* agent, the request and the session; the branch for a missing user id is
\* never taken; the store holds a record under no other key; and while an
\* action recorded for any caller is inside the period, a check that the
\* store answers sends the request of every agent and session to the
\* violation branch.
C28_OneSharedCooldown ==
  /\ [](/\ plugin_pc # "idle" => plugin_call.user_id = DefaultUser
        /\ plugin_call.branch # "missing_user_id"
        /\ \A u \in UserIds \ {DefaultUser} : plugin_store[u] = -1)
  /\ [][(/\ plugin_pc = "check"
         /\ plugin_pc' # "check"
         /\ plugin_call'.check = "ok"
         /\ \E u \in UserIds : BackendInCooldown(u))
          => plugin_pc' = "violation"]_vars

\* A request blocked by the action another agent recorded in another session.
C28_Witness ==
  /\ plugin_pc = "done"
  /\ Blocked
  /\ last_recorder # NoCaller
  /\ last_recorder.agent # plugin_call.agent
  /\ last_recorder.session # plugin_call.session

\* ------------------------------------------------- diagnose agent claims
\* C25: initialize() builds the agent system only when root_agent is None;
\* once root_agent is set no call runs get_agent_async or changes
\* root_agent, so however many calls follow, exactly one run of
\* get_agent_async has returned an agent and root_agent is that agent.
C25_InitializeIdempotent ==
  /\ [](/\ Cardinality(SuccessfulBuilds) <= 1
        /\ root_agent # 0 => SuccessfulBuilds = {root_agent})
  /\ [][root_agent # 0 =>
          /\ root_agent' = root_agent
          /\ build_log' = build_log]_vars

\* Both tasks have called initialize() after the agent system was built.
C25_Witness ==
  /\ root_agent # 0
  /\ \A t \in Tasks : task_pc[t] = "done_already"
  /\ Cardinality(SuccessfulBuilds) = 1

\* C26: get_agent() returns the initialised root_agent or raises
\* RuntimeError, and raises exactly when root_agent is None;
\* is_system_ready() returns True exactly in the states where get_agent()
\* does not raise.
C26_GetAgentNeverReturnsUnset ==
  /\ helper_result.called = "get_agent" =>
       /\ helper_result.outcome \in {"returned", "RuntimeError"}
       /\ helper_result.outcome = "RuntimeError" <=> helper_result.root_agent = 0
       /\ helper_result.outcome = "returned" =>
            /\ helper_result.value = helper_result.root_agent
            /\ helper_result.value \in SuccessfulBuilds
  /\ helper_result.called = "is_system_ready" =>
       (helper_result.ready <=>
          get_agent(helper_result.root_agent).outcome # "RuntimeError")

\* get_agent() raised after a module load in which both startups failed.
C26_Witness ==
  /\ helper_result.called = "get_agent"
  /\ helper_result.outcome = "RuntimeError"
  /\ loader = "loaded"
  /\ Len(build_log) >= 2

InInitialize(t) == task_pc[t] \in {"building", "built"}

\* C29 as stated: under concurrent calls of initialize() get_agent_async is
\* run at most once and root_agent is assigned at most once, and no two
\* callers both observe root_agent is None and both build.
C29_BuildRunAtMostOnce ==
  /\ Cardinality(BuildsBy(Tasks)) <= 1
  /\ Cardinality({t \in Tasks : InInitialize(t)}) <= 1

\* C29 amended: under concurrent calls of initialize() at most one run of
\* get_agent_async returns an agent and root_agent is assigned at most once
\* and never overwritten; no two callers are between the test of root_agent
\* and the assignment at the same time.  A run that raises leaves root_agent
\* None, and a later call runs get_agent_async again.
C29_NoDoubleBuild ==
  /\ [](/\ Cardinality(SuccessfulBuilds) <= 1
        /\ Cardinality({t \in Tasks : InInitialize(t)}) <= 1
        /\ \A t \in Tasks : InInitialize(t) => (loop_current = t /\ root_agent = 0))
  /\ [][root_agent' # root_agent => root_agent = 0]_vars

\* One task built the agent system and the other found it built.
C29_Witness ==
  \E t1, t2 \in Tasks :
    /\ task_pc[t1] = "done_built"
    /\ task_pc[t2] = "done_already"
    /\ root_agent = task_result[t1]
    /\ build_log[root_agent].by = t1

\* C30: loading the module never fails because of initialisation: an
\* exception raised while building is caught, the module finishes loading
\* with root_agent still None, and the second startup runs the build only if
\* the first one left root_agent None.
C30_ModuleLoadSurvivesFailure ==
  /\ [](/\ loader # "import_failed"
        /\ (loader = "loaded" /\ SuccessfulBuilds = {}) => root_agent = 0
        /\ (loader = "second_startup" /\ ~build_log[1].ok) => root_agent = 0)
  /\ [][(loader = "second_startup" /\ loader' # loader) =>
          (build_log' # build_log <=> root_agent = 0)]_vars

\* The module is loaded after both startups failed to build.
C30_Witness ==
  /\ loader = "loaded"
  /\ Len(build_log) = 2
  /\ SuccessfulBuilds = {}
  /\ root_agent = 0

====
